---------------------------- MODULE Spec2Model ----------------------------
(***************************************************************************)
(* PrepXL web client: the authenticated API client of services/api.js      *)
(* (getAuthToken, shouldRetry, apiClient, uploadFile), the auth bridge of  *)
(* hooks/useAuth.js (useAuth, useLogout), the route table of App.jsx and   *)
(* getApiUrl of utils/validateEnv.js.                                      *)
(*                                                                         *)
(* One logical request at a time is followed from the call to the value    *)
(* or error its promise settles with.  JavaScript strings are sequences of *)
(* tokens, so that String.prototype.includes is a real search; JavaScript  *)
(* objects are functions from property names to values, so that object     *)
(* spread is a real merge; a property an object does not have is a name    *)
(* outside the function's domain.                                          *)
(***************************************************************************)
EXTENDS Integers, Sequences, FiniteSets, TLC

VARIABLES
    currentUser,    \* auth.currentUser is non-null
    op,             \* the exported function being followed
    pc,             \* position inside that function
    options,        \* apiClient's options argument
    onProgress,     \* uploadFile was given a progress callback
    retryCount,     \* apiClient's retryCount parameter
    user,           \* getAuthToken's local `user` is non-null
    idTokenCalls,   \* user.getIdToken calls of the current getAuthToken
    accessorCalls,  \* getAuthToken invocations of this logical request
    authResult,     \* what the current getAuthToken settled with
    token,          \* the local `token` of the current attempt
    attempts,       \* HTTP exchanges started by this logical request
    inFlight,       \* HTTP exchanges started and not yet settled
    lastRequest,    \* the config of the last exchange started
    lastResponse,   \* the last response received
    outcomes,       \* per exchange: how it ended
    delays,         \* the sleep(delay) calls made, in order
    error,          \* the error caught by the current catch block
    result,         \* what the promise returned to the caller settled with
    progressEvents, \* the XHR upload's progress events, in order
    progressCalls,  \* the values onProgress was called with, in order
    life,           \* per useAuth consumer: "new", "mounted" or "unmounted"
    authListenerInitialized,    \* the module flag of useAuth.js
    listeners,      \* consumers whose onAuthStateChanged listener is subscribed
    cleanups,       \* consumers whose effect returned the cleanup function
    authChecked,    \* per consumer: its authChecked state
    errorState,     \* per consumer: its error state
    storeUser,      \* state.auth.user
    storeProfile,   \* state.auth.profile
    runs,           \* the runs of the auth-change handler, in start order
    notifications,  \* notifications the provider delivered to a listener
    notified,       \* the consumers mounted when a notification came
    lastEvent,      \* the step of the auth bridge taken last
    logoutPc,       \* position inside the function useLogout returns
    signOutOutcome, \* how auth.signOut() settled for the current logout
    logoutResult,   \* what the logout promise settled with
    history,        \* the router's history stack; its last entry is shown
    viewLoading,    \* `loading` as useAuth returned it to App
    viewAuthenticated,  \* `isAuthenticated` as useAuth returned it to App
    rendered,       \* the element App rendered last
    envUrl,         \* import.meta.env.VITE_API_BASE_URL
    apiUrl          \* what getApiUrl returned last

apiVars == << currentUser, op, pc, options, onProgress, retryCount, user,
              idTokenCalls, accessorCalls, authResult, token, attempts,
              inFlight, lastRequest, lastResponse, outcomes, delays, error,
              result >>

progressVars == << progressEvents, progressCalls >>

authVars == << life, authListenerInitialized, listeners, cleanups,
               authChecked, errorState, storeUser, storeProfile, runs,
               notifications, notified, lastEvent >>

logoutVars == << logoutPc, signOutOutcome, logoutResult >>

appVars == << history, viewLoading, viewAuthenticated, rendered >>

envVars == << envUrl, apiUrl >>

shellVars == << logoutVars, appVars, envVars >>

vars == << apiVars, progressVars, authVars, shellVars >>

-----------------------------------------------------------------------------
(* Bounds of the model *)

\* The configured base URL has at most MaxUrlLen characters.
MaxUrlLen == 6

\* The router's history stack holds at most MaxHistory entries.
MaxHistory == 2

\* The credential provider hands out tokens 1..MaxToken.
MaxToken == 2

\* Progress events followed during one XHR upload.
MaxProgressEvents == 3

\* Component instances that use useAuth.
MaxConsumers == 2

\* Runs of the auth-change handler that are followed.
MaxRuns == 2

(* Program constants *)

\* shouldRetry: `if (attempt >= 3) return false`
MaxRetries == 3
\* apiClient: `Math.min(1000 * Math.pow(2, retryCount), 5000)`
BaseDelayMs == 1000
MaxDelayMs == 5000

Tokens == 1..MaxToken

Consumers == 1..MaxConsumers

\* null, as the value of a React state or of a store field.
Null == << "null" >>

-----------------------------------------------------------------------------
(* JavaScript strings and objects *)

\* String.prototype.includes: `p` occurs in `s` as a contiguous run.
Includes(s, p) ==
    \E i \in 0..(Len(s) - Len(p)) : SubSeq(s, i + 1, i + Len(p)) = p

\* The object with no properties, {}.
EmptyObject == [k \in {} |-> 0]

\* Object spread { ...a, ...b }: b's properties win.
Spread(a, b) ==
    [k \in (DOMAIN a) \cup (DOMAIN b) |-> IF k \in DOMAIN b THEN b[k] ELSE a[k]]

\* `o.k` is not undefined.
Has(o, k) == k \in DOMAIN o

Min(a, b) == IF a <= b THEN a ELSE b

RECURSIVE Pow2(_)
Pow2(n) == IF n = 0 THEN 1 ELSE 2 * Pow2(n - 1)

Last(seq) == seq[Len(seq)]

RECURSIVE Sum(_)
Sum(s) == IF s = << >> THEN 0 ELSE Head(s) + Sum(Tail(s))

-----------------------------------------------------------------------------
(* Message texts of the source and of the runtime *)

FailedToFetch == << "Failed", "to", "fetch" >>
NetworkRequestFailed == << "Network", "request", "failed" >>

\* What fetch() rejects with when the exchange fails at the network level:
\* a TypeError whose message the runtime chooses (Chromium, the whatwg-fetch
\* polyfill / React Native, Firefox, WebKit).
NetworkErrorMessages ==
    { FailedToFetch,
      NetworkRequestFailed,
      << "NetworkError", "when", "attempting", "to", "fetch", "resource." >>,
      << "Load", "failed" >> }

UnauthenticatedMessage == << "User", "not", "authenticated" >>
SessionExpiredMessage ==
    << "Authentication", "expired.", "Please", "log", "in", "again." >>

\* getAuthToken: `throw new Error('User not authenticated')`
UnauthenticatedError == [name |-> "Error", message |-> UnauthenticatedMessage]

\* The refresh failure reported with the same error as a missing user.
SessionExpiredError_AsUnauthenticated ==
    [name |-> "Error", message |-> UnauthenticatedMessage]

\* getAuthToken: `throw new Error('Authentication expired. Please log in again.')`
SessionExpiredError == [name |-> "Error", message |-> SessionExpiredMessage]

NoError == [name |-> "none"]
NoResult == [kind |-> "none"]
NoRequest == [url |-> "none"]
NoResponse == [status |-> 0]


-----------------------------------------------------------------------------
(* Requests *)

\* `Bearer ${token}`
Bearer(tok) == << "Bearer", tok >>

ApplicationJson == << "application/json" >>

\* `...options.headers`: spreading undefined adds nothing.
OptionHeaders(opts) ==
    IF Has(opts, "headers") THEN opts["headers"] ELSE EmptyObject

\* apiClient's config:
\*   { headers: { Authorization, 'Content-Type', ...options.headers }, ...options }
BuildConfig(tok, opts) ==
    Spread(
        [headers |->
            Spread(("Authorization" :> Bearer(tok))
                       @@ ("Content-Type" :> ApplicationJson),
                   OptionHeaders(opts))],
        opts)

\* uploadFile's config, and the one header its XHR sets.
UploadConfig(tok) ==
    [method |-> "POST",
     headers |-> ("Authorization" :> Bearer(tok)),
     body |-> "formData"]

\* The options objects callers pass: none, the helpers' { method, body },
\* and options that carry a headers field.
OptionsSet ==
    { EmptyObject,
      [method |-> "POST", body |-> "json"],
      [method |-> "GET", headers |-> ("X-Request-Id" :> << "1" >>)],
      [method |-> "GET", headers |-> ("Authorization" :> Bearer(0))] }

-----------------------------------------------------------------------------
(* Responses *)

\* Values a response body parses to.
JsObject(props) == [t |-> "object", props |-> props]
JsNull == [t |-> "null"]
JsString(s) == [t |-> "string", s |-> s]

ServerMessages ==
    { << "Profile", "not", "found" >>,
      << "Upstream", "error:", "Failed", "to", "fetch" >> }

JsonValues ==
    { JsObject([message |-> m]) : m \in ServerMessages }
        \cup { JsObject(EmptyObject), JsObject([message |-> << >>]), JsNull }

\* The text of a JSON value, as response.text() and xhr.responseText give it.
JsonText(v) ==
    IF v.t = "null" THEN << "null" >>
    ELSE IF Has(v.props, "message")
         THEN << "{", "message", ":" >> \o v.props["message"] \o << "}" >>
         ELSE << "{", "}" >>

Texts == { << >>, << "Service", "Unavailable" >> }

\* A body on the wire: the text of a JSON value, or text that is not JSON.
Bodies ==
    { [wire |-> "json", value |-> v] : v \in JsonValues }
        \cup { [wire |-> "text", text |-> s] : s \in Texts }

Statuses == { 200, 404, 500, 503 }

StatusText(status) ==
    CASE status = 200 -> << "OK" >>
      [] status = 404 -> << "Not", "Found" >>
      [] status = 500 -> << "Internal", "Server", "Error" >>
      [] status = 503 -> << "Service", "Unavailable" >>
      [] OTHER -> << >>

ResponseHeaders ==
    { EmptyObject,
      "content-type" :> ApplicationJson,
      "content-type" :> << "application/json", ";", "charset=utf-8" >> }

Responses ==
    { [status |-> st, headers |-> h, body |-> b] :
          st \in Statuses, h \in ResponseHeaders, b \in Bodies }

\* response.ok
Ok(response) == response.status >= 200 /\ response.status <= 299

\* `contentType && contentType.includes('application/json')`
IsJsonContentType(response) ==
    /\ Has(response.headers, "content-type")
    /\ Includes(response.headers["content-type"], ApplicationJson)

\* response.text()
ResponseText(body) ==
    IF body.wire = "text" THEN body.text ELSE JsonText(body.value)

\* JSON.parse / response.json(): the value, or a SyntaxError.
JsonParses(body) == body.wire = "json"
JsonParse(body) == body.value

SyntaxError ==
    [name |-> "SyntaxError",
     message |-> << "Unexpected", "token", "in", "JSON" >>]

\* Reading a property of null.
NullTypeError ==
    [name |-> "TypeError",
     message |-> << "Cannot", "read", "properties", "of", "null" >>]

\* apiClient lines 71-78: json() when the content type says JSON, else text().
BodyReadable(response) ==
    IsJsonContentType(response) => JsonParses(response.body)

ReadBody(response) ==
    IF IsJsonContentType(response)
    THEN JsonParse(response.body)
    ELSE JsString(ResponseText(response.body))

\* JavaScript truthiness of a parsed body: objects are truthy, '' is not.
Truthy(data) ==
    CASE data.t = "object" -> TRUE
      [] data.t = "string" -> data.s # << >>
      [] OTHER -> FALSE

\* String(data), as `new Error(data)` applies it.
ToStr(data) ==
    IF data.t = "string" THEN data.s ELSE << "[object", "Object]" >>

\* `typeof data === 'object' && data.message`, when it is truthy.
HasServerMessage(data) ==
    /\ data.t = "object"
    /\ Has(data.props, "message")
    /\ data.props["message"] # << >>

\* `HTTP ${response.status}: ${response.statusText}`
GenericMessage(response) ==
    << "HTTP", ToString(response.status) \o ":" >> \o StatusText(response.status)

\* apiClient lines 81-87: the error thrown for a response that is not ok.
\* typeof null is 'object', so a null body makes `data.message` throw.
HttpError(data, response) ==
    IF data.t = "null"
    THEN NullTypeError
    ELSE [name |-> "Error",
          message |-> IF HasServerMessage(data) THEN data.props["message"]
                      ELSE IF Truthy(data) THEN ToStr(data)
                      ELSE GenericMessage(response),
          status |-> response.status,
          data |-> data]

\* How an exchange ended, for the record in `outcomes`.
StatusClass(status) ==
    IF status >= 500 /\ status < 600 THEN "http5xx"
    ELSE IF status >= 400 /\ status < 500 THEN "http4xx"
    ELSE "http2xx"

-----------------------------------------------------------------------------
(* Retry policy *)

\* shouldRetry with `attempt > 3` in place of `attempt >= 3`.
shouldRetry_OffByOne(err, attempt) ==
    IF attempt > MaxRetries THEN FALSE
    ELSE IF \/ Includes(err.message, FailedToFetch)
            \/ Includes(err.message, NetworkRequestFailed)
         THEN TRUE
    ELSE IF Has(err, "status") /\ err.status >= 500 /\ err.status < 600
         THEN TRUE
    ELSE FALSE

\* shouldRetry that retries every error while attempts remain.
shouldRetry_RetryAll(err, attempt) == attempt < MaxRetries

shouldRetry(err, attempt) ==
    IF attempt >= MaxRetries THEN FALSE
    ELSE IF \/ Includes(err.message, FailedToFetch)
            \/ Includes(err.message, NetworkRequestFailed)
         THEN TRUE
    ELSE IF Has(err, "status") /\ err.status >= 500 /\ err.status < 600
         THEN TRUE
    ELSE FALSE

\* A linear backoff in place of the exponential one.
BackoffDelay_Linear(n) == Min(BaseDelayMs * (n + 1), MaxDelayMs)

\* `Math.min(1000 * Math.pow(2, retryCount), 5000)`
BackoffDelay(n) == Min(BaseDelayMs * Pow2(n), MaxDelayMs)

-----------------------------------------------------------------------------
(* The state after the module is loaded: no request yet *)

\* What App renders while `loading` is true.
PageLoading == [el |-> "PageLoading", arg |-> ""]

\* The environment has not been read yet.
NotLoaded == << "notLoaded" >>

Init ==
    /\ currentUser \in BOOLEAN
    /\ op = "none"
    /\ pc = "idle"
    /\ options = EmptyObject
    /\ onProgress = FALSE
    /\ retryCount = 0
    /\ user = FALSE
    /\ idTokenCalls = << >>
    /\ accessorCalls = 0
    /\ authResult = NoResult
    /\ token = 0
    /\ attempts = 0
    /\ inFlight = 0
    /\ lastRequest = NoRequest
    /\ lastResponse = NoResponse
    /\ outcomes = << >>
    /\ delays = << >>
    /\ error = NoError
    /\ result = NoResult
    /\ progressEvents = << >>
    /\ progressCalls = << >>
    /\ life = [c \in Consumers |-> "new"]
    /\ authListenerInitialized = FALSE
    /\ listeners = {}
    /\ cleanups = {}
    /\ authChecked = [c \in Consumers |-> FALSE]
    /\ errorState = [c \in Consumers |-> Null]
    /\ storeUser = JsNull
    /\ storeProfile = JsNull
    /\ runs = << >>
    /\ notifications = 0
    /\ notified = {}
    /\ lastEvent = "other"
    /\ logoutPc = "idle"
    /\ signOutOutcome = "none"
    /\ logoutResult = NoResult
    /\ history = << "/" >>
    /\ viewLoading = TRUE
    /\ viewAuthenticated = FALSE
    /\ rendered = PageLoading
    /\ envUrl = NotLoaded
    /\ apiUrl = NoResult

-----------------------------------------------------------------------------
(* The credential provider *)

\* The provider signs the user in or out; auth.currentUser follows.
AuthStateChanged ==
    /\ currentUser' = ~currentUser
    /\ UNCHANGED << op, pc, options, onProgress, retryCount, user,
                    idTokenCalls, accessorCalls, authResult, token, attempts,
                    inFlight, lastRequest, lastResponse, outcomes, delays,
                    error, result >>
    /\ UNCHANGED << progressVars, authVars, shellVars >>

-----------------------------------------------------------------------------
(* Calls *)

\* apiClient(endpoint, options): retryCount takes its default, 0.
CallApiClient ==
    /\ pc = "idle"
    /\ \E o \in OptionsSet : options' = o
    /\ op' = "apiClient"
    /\ retryCount' = 0
    /\ pc' = "getAuthToken"
    /\ UNCHANGED << currentUser, onProgress, user, idTokenCalls,
                    accessorCalls, authResult, token, attempts, inFlight,
                    lastRequest, lastResponse, outcomes, delays, error,
                    result >>
    /\ UNCHANGED << progressVars, authVars, shellVars >>

\* uploadFile(endpoint, formData, onProgress)
CallUploadFile ==
    /\ pc = "idle"
    /\ \E cb \in BOOLEAN : onProgress' = cb
    /\ op' = "uploadFile"
    /\ pc' = "getAuthToken"
    /\ UNCHANGED << currentUser, options, retryCount, user, idTokenCalls,
                    accessorCalls, authResult, token, attempts, inFlight,
                    lastRequest, lastResponse, outcomes, delays, error,
                    result >>
    /\ UNCHANGED << progressVars, authVars, shellVars >>

-----------------------------------------------------------------------------
(* getAuthToken *)

\* `const user = auth.currentUser; if (!user) throw ...`
GetAuthToken ==
    /\ pc = "getAuthToken"
    /\ user' = currentUser
    /\ accessorCalls' = accessorCalls + 1
    /\ idTokenCalls' = << >>
    /\ IF currentUser
       THEN /\ authResult' = NoResult
            /\ pc' = "getIdToken"
       ELSE /\ authResult' = [kind |-> "throw", error |-> UnauthenticatedError]
            /\ pc' = "tokenSettled"
    /\ UNCHANGED << currentUser, op, options, onProgress, retryCount, token,
                    attempts, inFlight, lastRequest, lastResponse, outcomes,
                    delays, error, result >>
    /\ UNCHANGED << progressVars, authVars, shellVars >>

\* `return await user.getIdToken(false)`: it resolves with a token or rejects.
GetIdTokenCached ==
    /\ pc = "getIdToken"
    /\ \/ \E t \in Tokens :
             /\ idTokenCalls' = Append(idTokenCalls,
                    [forceRefresh |-> FALSE, ok |-> TRUE, value |-> t])
             /\ authResult' = [kind |-> "return", value |-> t]
             /\ pc' = "tokenSettled"
       \/ /\ idTokenCalls' = Append(idTokenCalls,
                 [forceRefresh |-> FALSE, ok |-> FALSE, value |-> 0])
          /\ authResult' = NoResult
          /\ pc' = "refreshIdToken"
    /\ UNCHANGED << currentUser, op, options, onProgress, retryCount, user,
                    accessorCalls, token, attempts, inFlight, lastRequest,
                    lastResponse, outcomes, delays, error, result >>
    /\ UNCHANGED << progressVars, authVars, shellVars >>

\* The catch block asking for the cached token again, getIdToken(false).
GetIdTokenForced_NotForced ==
    /\ pc = "refreshIdToken"
    /\ \/ \E t \in Tokens :
             /\ idTokenCalls' = Append(idTokenCalls,
                    [forceRefresh |-> FALSE, ok |-> TRUE, value |-> t])
             /\ authResult' = [kind |-> "return", value |-> t]
       \/ /\ idTokenCalls' = Append(idTokenCalls,
                 [forceRefresh |-> FALSE, ok |-> FALSE, value |-> 0])
          /\ authResult' = [kind |-> "throw", error |-> SessionExpiredError]
    /\ pc' = "tokenSettled"
    /\ UNCHANGED << currentUser, op, options, onProgress, retryCount, user,
                    accessorCalls, token, attempts, inFlight, lastRequest,
                    lastResponse, outcomes, delays, error, result >>
    /\ UNCHANGED << progressVars, authVars, shellVars >>

\* `return await user.getIdToken(true)` in the catch block.
GetIdTokenForced ==
    /\ pc = "refreshIdToken"
    /\ \/ \E t \in Tokens :
             /\ idTokenCalls' = Append(idTokenCalls,
                    [forceRefresh |-> TRUE, ok |-> TRUE, value |-> t])
             /\ authResult' = [kind |-> "return", value |-> t]
       \/ /\ idTokenCalls' = Append(idTokenCalls,
                 [forceRefresh |-> TRUE, ok |-> FALSE, value |-> 0])
          /\ authResult' = [kind |-> "throw", error |-> SessionExpiredError]
    /\ pc' = "tokenSettled"
    /\ UNCHANGED << currentUser, op, options, onProgress, retryCount, user,
                    accessorCalls, token, attempts, inFlight, lastRequest,
                    lastResponse, outcomes, delays, error, result >>
    /\ UNCHANGED << progressVars, authVars, shellVars >>

-----------------------------------------------------------------------------
(* apiClient *)

\* `const token = await getAuthToken()` threw: control enters the catch block.
ApiTokenFailed ==
    /\ pc = "tokenSettled"
    /\ op = "apiClient"
    /\ authResult.kind = "throw"
    /\ error' = authResult.error
    /\ pc' = "catch"
    /\ UNCHANGED << currentUser, op, options, onProgress, retryCount, user,
                    idTokenCalls, accessorCalls, authResult, token, attempts,
                    inFlight, lastRequest, lastResponse, outcomes, delays,
                    result >>
    /\ UNCHANGED << progressVars, authVars, shellVars >>

\* The token arrived: build the config and start the exchange, fetch(url, config).
ApiFetch ==
    /\ pc = "tokenSettled"
    /\ op = "apiClient"
    /\ authResult.kind = "return"
    /\ token' = authResult.value
    /\ lastRequest' = [transport |-> "fetch",
                       config |-> BuildConfig(authResult.value, options)]
    /\ attempts' = attempts + 1
    /\ inFlight' = inFlight + 1
    /\ pc' = "fetching"
    /\ UNCHANGED << currentUser, op, options, onProgress, retryCount, user,
                    idTokenCalls, accessorCalls, authResult, lastResponse,
                    outcomes, delays, error, result >>
    /\ UNCHANGED << progressVars, authVars, shellVars >>

\* fetch rejects: the exchange failed at the network level.
ApiFetchRejected ==
    /\ pc = "fetching"
    /\ op = "apiClient"
    /\ \E m \in NetworkErrorMessages :
           error' = [name |-> "TypeError", message |-> m]
    /\ inFlight' = inFlight - 1
    /\ outcomes' = Append(outcomes, "network")
    /\ pc' = "catch"
    /\ UNCHANGED << currentUser, op, options, onProgress, retryCount, user,
                    idTokenCalls, accessorCalls, authResult, token, attempts,
                    lastRequest, lastResponse, delays, result >>
    /\ UNCHANGED << progressVars, authVars, shellVars >>

\* fetch resolves: read the body, then return it or throw the HTTP error.
ApiFetchResolved ==
    /\ pc = "fetching"
    /\ op = "apiClient"
    /\ \E r \in Responses :
           /\ lastResponse' = r
           /\ outcomes' = Append(outcomes, StatusClass(r.status))
           /\ IF ~BodyReadable(r)
              THEN /\ error' = SyntaxError
                   /\ pc' = "catch"
                   /\ result' = result
              ELSE IF ~Ok(r)
              THEN /\ error' = HttpError(ReadBody(r), r)
                   /\ pc' = "catch"
                   /\ result' = result
              ELSE /\ result' = [kind |-> "return", value |-> ReadBody(r)]
                   /\ pc' = "done"
                   /\ error' = error
    /\ inFlight' = inFlight - 1
    /\ UNCHANGED << currentUser, op, options, onProgress, retryCount, user,
                    idTokenCalls, accessorCalls, authResult, token, attempts,
                    lastRequest, delays >>
    /\ UNCHANGED << progressVars, authVars, shellVars >>

\* The catch block calling apiClient again at once, without the sleep.
ApiCatch_NoWait ==
    /\ pc = "catch"
    /\ op = "apiClient"
    /\ IF shouldRetry(error, retryCount)
       THEN /\ retryCount' = retryCount + 1
            /\ pc' = "getAuthToken"
            /\ user' = FALSE
            /\ idTokenCalls' = << >>
            /\ authResult' = NoResult
            /\ token' = 0
            /\ lastResponse' = NoResponse
            /\ error' = NoError
            /\ result' = result
       ELSE /\ result' = [kind |-> "throw", error |-> error]
            /\ pc' = "done"
            /\ UNCHANGED << retryCount, user, idTokenCalls, authResult,
                            token, lastResponse, error >>
    /\ UNCHANGED << currentUser, op, options, onProgress, accessorCalls,
                    attempts, inFlight, lastRequest, outcomes, delays >>
    /\ UNCHANGED << progressVars, authVars, shellVars >>

\* The catch block: start the backoff sleep, or rethrow.
ApiCatch ==
    /\ pc = "catch"
    /\ op = "apiClient"
    /\ IF shouldRetry(error, retryCount)
       THEN /\ delays' = Append(delays, BackoffDelay(retryCount))
            /\ pc' = "sleep"
            /\ result' = result
       ELSE /\ result' = [kind |-> "throw", error |-> error]
            /\ pc' = "done"
            /\ delays' = delays
    /\ UNCHANGED << currentUser, op, options, onProgress, retryCount, user,
                    idTokenCalls, accessorCalls, authResult, token, attempts,
                    inFlight, lastRequest, lastResponse, outcomes, error >>
    /\ UNCHANGED << progressVars, authVars, shellVars >>

\* The sleep is over: `return apiClient(endpoint, options, retryCount + 1)`.
\* The new invocation has its own locals (user, token, response, error).
ApiRetry ==
    /\ pc = "sleep"
    /\ op = "apiClient"
    /\ retryCount' = retryCount + 1
    /\ pc' = "getAuthToken"
    /\ user' = FALSE
    /\ idTokenCalls' = << >>
    /\ authResult' = NoResult
    /\ token' = 0
    /\ lastResponse' = NoResponse
    /\ error' = NoError
    /\ UNCHANGED << currentUser, op, options, onProgress, accessorCalls,
                    attempts, inFlight, lastRequest, outcomes, delays,
                    result >>
    /\ UNCHANGED << progressVars, authVars, shellVars >>

-----------------------------------------------------------------------------
(* uploadFile *)

\* `Upload failed: ${xhr.status} ${xhr.statusText}`
XhrFailureMessage(response) ==
    << "Upload", "failed:", ToString(response.status) >>
        \o StatusText(response.status)

\* `Upload failed: ${response.status}`
UploadFailureMessage(response) ==
    << "Upload", "failed:", ToString(response.status) >>

UploadNetworkError ==
    [name |-> "Error",
     message |-> << "Upload", "failed:", "Network", "error" >>]

\* The XHR load handler: what the returned promise settles with.
XhrLoadResult(response) ==
    IF response.status >= 200 /\ response.status < 300
    THEN IF JsonParses(response.body)
         THEN [kind |-> "return", value |-> JsonParse(response.body)]
         ELSE [kind |-> "return",
               value |-> JsString(ResponseText(response.body))]
    ELSE [kind |-> "throw",
          error |-> [name |-> "Error",
                     message |-> XhrFailureMessage(response)]]

\* `await response.json().catch(() => ({}))`
UploadErrorData(response) ==
    IF JsonParses(response.body)
    THEN JsonParse(response.body)
    ELSE JsObject(EmptyObject)

\* The fetch path's `throw new Error(errorData.message || ...)`.
UploadHttpError(response) ==
    LET errorData == UploadErrorData(response)
    IN  IF errorData.t = "null"
        THEN NullTypeError
        ELSE [name |-> "Error",
              message |-> IF HasServerMessage(errorData)
                          THEN errorData.props["message"]
                          ELSE UploadFailureMessage(response)]

\* `const token = await getAuthToken()` threw: control enters the catch block.
UploadTokenFailed ==
    /\ pc = "tokenSettled"
    /\ op = "uploadFile"
    /\ authResult.kind = "throw"
    /\ error' = authResult.error
    /\ pc' = "catch"
    /\ UNCHANGED << currentUser, op, options, onProgress, retryCount, user,
                    idTokenCalls, accessorCalls, authResult, token, attempts,
                    inFlight, lastRequest, lastResponse, outcomes, delays,
                    result >>
    /\ UNCHANGED << progressVars, authVars, shellVars >>

\* With a progress callback: xhr.open, xhr.setRequestHeader, xhr.send.
UploadXhrSend ==
    /\ pc = "tokenSettled"
    /\ op = "uploadFile"
    /\ authResult.kind = "return"
    /\ onProgress
    /\ token' = authResult.value
    /\ lastRequest' = [transport |-> "xhr",
                       config |-> UploadConfig(authResult.value)]
    /\ attempts' = attempts + 1
    /\ inFlight' = inFlight + 1
    /\ pc' = "xhr"
    /\ UNCHANGED << currentUser, op, options, onProgress, retryCount, user,
                    idTokenCalls, accessorCalls, authResult, lastResponse,
                    outcomes, delays, error, result >>
    /\ UNCHANGED << progressVars, authVars, shellVars >>

\* The progress events an upload of 4 bytes can raise: 1, 2 or 4 bytes sent
\* with the total known, or an event whose total is not known.  The quotients
\* are dyadic, so the double arithmetic of the source is exact on them.
ProgressEvents ==
    { [lengthComputable |-> TRUE, loaded |-> n, total |-> 4] : n \in { 1, 2, 4 } }
        \cup { [lengthComputable |-> FALSE, loaded |-> 1, total |-> 0] }

\* The percentage computed as a fraction, without `* 100`.
Percent_Fraction(e) == e.loaded \div e.total

\* `(e.loaded / e.total) * 100`
Percent(e) == (e.loaded * 100) \div e.total

\* The XHR upload's progress listener.
UploadXhrProgress ==
    /\ pc = "xhr"
    /\ Len(progressEvents) < MaxProgressEvents
    /\ \E e \in ProgressEvents :
           /\ progressEvents' = Append(progressEvents, e)
           /\ progressCalls' = IF e.lengthComputable
                               THEN Append(progressCalls, Percent(e))
                               ELSE progressCalls
    /\ UNCHANGED << apiVars, authVars, shellVars >>

\* The catch block retrying the upload, as apiClient's does.
UploadCatch_Retries ==
    /\ pc = "catch"
    /\ op = "uploadFile"
    /\ pc' = "getAuthToken"
    /\ UNCHANGED << currentUser, op, options, onProgress, retryCount, user,
                    idTokenCalls, accessorCalls, authResult, token, attempts,
                    inFlight, lastRequest, lastResponse, outcomes, delays,
                    error, result >>
    /\ UNCHANGED << progressVars, authVars, shellVars >>

\* The XHR's load event.  The promise was returned without await, so its
\* rejection goes to the caller without passing through the catch block.
UploadXhrLoad ==
    /\ pc = "xhr"
    /\ \E r \in Responses :
           /\ lastResponse' = r
           /\ outcomes' = Append(outcomes, StatusClass(r.status))
           /\ result' = XhrLoadResult(r)
    /\ inFlight' = inFlight - 1
    /\ pc' = "done"
    /\ UNCHANGED << currentUser, op, options, onProgress, retryCount, user,
                    idTokenCalls, accessorCalls, authResult, token, attempts,
                    lastRequest, delays, error >>
    /\ UNCHANGED << progressVars, authVars, shellVars >>

\* The XHR's error event.
UploadXhrError ==
    /\ pc = "xhr"
    /\ result' = [kind |-> "throw", error |-> UploadNetworkError]
    /\ outcomes' = Append(outcomes, "network")
    /\ inFlight' = inFlight - 1
    /\ pc' = "done"
    /\ UNCHANGED << currentUser, op, options, onProgress, retryCount, user,
                    idTokenCalls, accessorCalls, authResult, token, attempts,
                    lastRequest, lastResponse, delays, error >>
    /\ UNCHANGED << progressVars, authVars, shellVars >>

\* Without a progress callback: fetch(url, config).
UploadFetch ==
    /\ pc = "tokenSettled"
    /\ op = "uploadFile"
    /\ authResult.kind = "return"
    /\ ~onProgress
    /\ token' = authResult.value
    /\ lastRequest' = [transport |-> "fetch",
                       config |-> UploadConfig(authResult.value)]
    /\ attempts' = attempts + 1
    /\ inFlight' = inFlight + 1
    /\ pc' = "fetching"
    /\ UNCHANGED << currentUser, op, options, onProgress, retryCount, user,
                    idTokenCalls, accessorCalls, authResult, lastResponse,
                    outcomes, delays, error, result >>
    /\ UNCHANGED << progressVars, authVars, shellVars >>

UploadFetchRejected ==
    /\ pc = "fetching"
    /\ op = "uploadFile"
    /\ \E m \in NetworkErrorMessages :
           error' = [name |-> "TypeError", message |-> m]
    /\ inFlight' = inFlight - 1
    /\ outcomes' = Append(outcomes, "network")
    /\ pc' = "catch"
    /\ UNCHANGED << currentUser, op, options, onProgress, retryCount, user,
                    idTokenCalls, accessorCalls, authResult, token, attempts,
                    lastRequest, lastResponse, delays, result >>
    /\ UNCHANGED << progressVars, authVars, shellVars >>

UploadFetchResolved ==
    /\ pc = "fetching"
    /\ op = "uploadFile"
    /\ \E r \in Responses :
           /\ lastResponse' = r
           /\ outcomes' = Append(outcomes, StatusClass(r.status))
           /\ IF ~Ok(r)
              THEN /\ error' = UploadHttpError(r)
                   /\ pc' = "catch"
                   /\ result' = result
              ELSE IF ~JsonParses(r.body)
              THEN /\ error' = SyntaxError
                   /\ pc' = "catch"
                   /\ result' = result
              ELSE /\ result' = [kind |-> "return", value |-> JsonParse(r.body)]
                   /\ pc' = "done"
                   /\ error' = error
    /\ inFlight' = inFlight - 1
    /\ UNCHANGED << currentUser, op, options, onProgress, retryCount, user,
                    idTokenCalls, accessorCalls, authResult, token, attempts,
                    lastRequest, delays >>
    /\ UNCHANGED << progressVars, authVars, shellVars >>

\* The catch block logs and rethrows.
UploadCatch ==
    /\ pc = "catch"
    /\ op = "uploadFile"
    /\ result' = [kind |-> "throw", error |-> error]
    /\ pc' = "done"
    /\ UNCHANGED << currentUser, op, options, onProgress, retryCount, user,
                    idTokenCalls, accessorCalls, authResult, token, attempts,
                    inFlight, lastRequest, lastResponse, outcomes, delays,
                    error >>
    /\ UNCHANGED << progressVars, authVars, shellVars >>

-----------------------------------------------------------------------------
(* useAuth: the auth state bridge of hooks/useAuth.js *)

\* `x || d`
OrElse(x, d) == IF x = Null \/ x = << >> THEN d ELSE x

\* The users the provider reports: one with a display name and a photo, one
\* without.
FirebaseUsers ==
    { [uid |-> "u1", email |-> << "ada@example.com" >>,
       displayName |-> Null, photoURL |-> << "ada.png" >>] }

\* The payload of setUser.
UserPayload(fu) ==
    [uid |-> fu.uid,
     email |-> fu.email,
     displayName |-> OrElse(fu.displayName, << "User" >>),
     photoURL |-> OrElse(fu.photoURL, Null)]

\* The payload of createUserProfile.
ProfilePayload(fu) ==
    [email |-> fu.email,
     displayName |-> OrElse(fu.displayName, << "User" >>),
     photoUrl |-> OrElse(fu.photoURL, Null)]

\* authSlice's reducers: setUser stores its payload, clearUser empties user
\* and profile, a fulfilled profile thunk stores the profile it resolved with.
SetUserReducer(payload) == JsObject(payload)
ClearUserReducer == JsNull
ProfileOf(fu) == JsObject([uid |-> fu.uid])

\* state.auth.loading: nothing the bridge dispatches raises it.
StoreLoading == FALSE

\* What `.unwrap()` throws when a profile thunk rejects: the string given to
\* rejectWithValue, or the serialized error object of a thunk that threw.
RejectValues ==
    { JsString(<< "Request", "failed", "with", "status", "404" >>),
      JsString(<< "Profile", "not", "found" >>),
      JsString(<< "Network", "Error" >>),
      JsObject([name |-> << "Error" >>, message |-> << "Network", "Error" >>]) }

CreateProfileFailed ==
    << "Failed", "to", "create", "user", "profile.", "Please", "try", "again." >>
LoadProfileFailed == << "Failed", "to", "load", "user", "profile." >>
AuthErrorOccurred == << "Authentication", "error", "occurred." >>
AuthServiceError == << "Authentication", "service", "error." >>

\* The classification that treats every failure as not-found.
IsNotFound_Always(profileError) == TRUE

\* `profileError.includes('404') || profileError.includes('not found')`
IsNotFound(profileError) ==
    \/ Includes(profileError.s, << "404" >>)
    \/ Includes(profileError.s, << "not", "found" >>)

\* Only strings have `includes`; calling it on an object throws a TypeError.
HasIncludes(profileError) == profileError.t = "string"

\* The effect registering without looking at the flag.
EffectRegisters_NoGuard(flag) == TRUE

\* `if (authListenerInitialized) return;`
EffectRegisters(flag) == ~flag

\* The cleanup that unsubscribes without resetting the flag.
CleanupFlag_NotReset(flag) == flag

\* The cleanup: `authListenerInitialized = false`.
CleanupFlag(flag) == FALSE

\* A state setter of a component: it acts while the component is mounted.
SetState(state, cs, value) ==
    [c \in Consumers |->
        IF c \in cs /\ life[c] = "mounted" THEN value ELSE state[c]]

\* The value useAuth returns to component c.
Loading(c) == StoreLoading \/ ~authChecked[c]
IsAuthenticated == storeUser # JsNull

RECURSIVE SetToSeq(_)
SetToSeq(S) ==
    IF S = {} THEN << >>
    ELSE LET x == CHOOSE y \in S : \A z \in S : y <= z
         IN  << x >> \o SetToSeq(S \ { x })

\* One run of the handler per subscribed listener.
NewRuns(template) ==
    LET ls == SetToSeq(listeners)
    IN  [i \in 1..Len(ls) |-> [template EXCEPT !.owner = ls[i]]]

MountedConsumers == { c \in Consumers : life[c] = "mounted" }

\* A component that uses useAuth mounts and its effect runs.
Mount(c) ==
    /\ life[c] = "new"
    /\ life' = [life EXCEPT ![c] = "mounted"]
    /\ IF EffectRegisters(authListenerInitialized)
       THEN /\ authListenerInitialized' = TRUE
            /\ listeners' = listeners \cup { c }
            /\ cleanups' = cleanups \cup { c }
       ELSE UNCHANGED << authListenerInitialized, listeners, cleanups >>
    /\ lastEvent' = "other"
    /\ UNCHANGED << authChecked, errorState, storeUser, storeProfile, runs,
                    notifications, notified >>
    /\ UNCHANGED << apiVars, progressVars, shellVars >>

\* The component unmounts: the effect's cleanup, if it returned one, runs,
\* and the component's own state is discarded.
Unmount(c) ==
    /\ life[c] = "mounted"
    /\ life' = [life EXCEPT ![c] = "unmounted"]
    /\ IF c \in cleanups /\ authListenerInitialized
       THEN /\ listeners' = listeners \ { c }
            /\ authListenerInitialized' = CleanupFlag(authListenerInitialized)
       ELSE UNCHANGED << authListenerInitialized, listeners >>
    /\ cleanups' = cleanups \ { c }
    /\ lastEvent' = "other"
    /\ authChecked' = [authChecked EXCEPT ![c] = FALSE]
    /\ errorState' = [errorState EXCEPT ![c] = Null]
    /\ notified' = notified \ { c }
    /\ UNCHANGED << storeUser, storeProfile, runs, notifications >>
    /\ UNCHANGED << apiVars, progressVars, shellVars >>

\* A "signed in" notification: setUser, then the profile fetch is awaited.
NotifySignedIn ==
    /\ listeners # {}
    /\ Len(runs) + Cardinality(listeners) <= MaxRuns
    /\ \E fu \in FirebaseUsers :
           /\ storeUser' = SetUserReducer(UserPayload(fu))
           /\ runs' = runs \o NewRuns(
                  [owner |-> 0, kind |-> "signedIn", user |-> fu,
                   pc |-> "awaitFetch", fetches |-> 1, creates |-> 0,
                   errors |-> << >>, path |-> "none",
                   fetchError |-> JsNull])
    /\ notifications' = notifications + 1
    /\ lastEvent' = "other"
    /\ notified' = notified \cup MountedConsumers
    /\ UNCHANGED << life, authListenerInitialized, listeners, cleanups,
                    authChecked, errorState, storeProfile >>
    /\ UNCHANGED << apiVars, progressVars, shellVars >>

\* The signed-out branch without its dispatch(clearUser()).
NotifySignedOut_NoClear ==
    /\ listeners # {}
    /\ Len(runs) + Cardinality(listeners) <= MaxRuns
    /\ runs' = runs \o NewRuns(
           [owner |-> 0, kind |-> "signedOut", user |-> JsNull,
            pc |-> "done", fetches |-> 0, creates |-> 0,
            errors |-> << >>, path |-> "signedOut",
            fetchError |-> JsNull])
    /\ authChecked' = SetState(authChecked, listeners, TRUE)
    /\ notifications' = notifications + 1
    /\ lastEvent' = "signedOut"
    /\ notified' = notified \cup MountedConsumers
    /\ UNCHANGED << life, authListenerInitialized, listeners, cleanups,
                    errorState, storeUser, storeProfile >>
    /\ UNCHANGED << apiVars, progressVars, shellVars >>

\* A "signed out" notification: clearUser, then the finally block.
NotifySignedOut ==
    /\ listeners # {}
    /\ Len(runs) + Cardinality(listeners) <= MaxRuns
    /\ storeUser' = ClearUserReducer
    /\ storeProfile' = ClearUserReducer
    /\ runs' = runs \o NewRuns(
           [owner |-> 0, kind |-> "signedOut", user |-> JsNull,
            pc |-> "done", fetches |-> 0, creates |-> 0,
            errors |-> << >>, path |-> "signedOut",
            fetchError |-> JsNull])
    /\ authChecked' = SetState(authChecked, listeners, TRUE)
    /\ notifications' = notifications + 1
    /\ lastEvent' = "signedOut"
    /\ notified' = notified \cup MountedConsumers
    /\ UNCHANGED << life, authListenerInitialized, listeners, cleanups,
                    errorState >>
    /\ UNCHANGED << apiVars, progressVars, shellVars >>

\* The error callback without its setAuthChecked(true).
ProviderError_NoChecked ==
    /\ listeners # {}
    /\ errorState' = SetState(errorState, listeners, AuthServiceError)
    /\ lastEvent' = "providerError"
    /\ notified' = notified \cup MountedConsumers
    /\ UNCHANGED << life, authListenerInitialized, listeners, cleanups,
                    authChecked, storeUser, storeProfile, runs,
                    notifications >>
    /\ UNCHANGED << apiVars, progressVars, shellVars >>

\* The listener's error callback.
ProviderError ==
    /\ listeners # {}
    /\ errorState' = SetState(errorState, listeners, AuthServiceError)
    /\ authChecked' = SetState(authChecked, listeners, TRUE)
    /\ lastEvent' = "providerError"
    /\ notified' = notified \cup MountedConsumers
    /\ UNCHANGED << life, authListenerInitialized, listeners, cleanups,
                    storeUser, storeProfile, runs, notifications >>
    /\ UNCHANGED << apiVars, progressVars, shellVars >>

\* The end of a run without the finally block.
Finish_NoFinally(i, thrown, path, errs) ==
    /\ runs' = [runs EXCEPT ![i] =
           [@ EXCEPT !.pc = "done", !.path = path, !.errors = @ \o errs,
                     !.fetchError = IF thrown = JsNull THEN @ ELSE thrown]]
    /\ errorState' = IF errs = << >> THEN errorState
                     ELSE SetState(errorState, { runs[i].owner }, Last(errs))
    /\ authChecked' = authChecked

\* The end of a run: the setError calls it made, then the finally block.
Finish(i, thrown, path, errs) ==
    /\ runs' = [runs EXCEPT ![i] =
           [@ EXCEPT !.pc = "done", !.path = path, !.errors = @ \o errs,
                     !.fetchError = IF thrown = JsNull THEN @ ELSE thrown]]
    /\ errorState' = IF errs = << >> THEN errorState
                     ELSE SetState(errorState, { runs[i].owner }, Last(errs))
    /\ authChecked' = SetState(authChecked, { runs[i].owner }, TRUE)

\* `await dispatch(fetchUserProfile()).unwrap()` resolves.
FetchFulfilled(i) ==
    /\ runs[i].pc = "awaitFetch"
    /\ storeProfile' = ProfileOf(runs[i].user)
    /\ Finish(i, JsNull, "loaded", << >>)
    /\ lastEvent' = "other"
    /\ UNCHANGED notified
    /\ UNCHANGED << life, authListenerInitialized, listeners, cleanups,
                    storeUser, notifications >>
    /\ UNCHANGED << apiVars, progressVars, shellVars >>

\* It rejects: create the profile, or report the failure.
FetchRejected(i) ==
    /\ runs[i].pc = "awaitFetch"
    /\ \E profileError \in RejectValues :
           IF ~HasIncludes(profileError)
           THEN Finish(i, profileError, "handlerThrew",
                       << AuthErrorOccurred >>)
           ELSE IF IsNotFound(profileError)
           THEN /\ runs' = [runs EXCEPT ![i] =
                       [@ EXCEPT !.pc = "awaitCreate", !.creates = @ + 1,
                                 !.fetchError = profileError]]
                /\ UNCHANGED << errorState, authChecked >>
           ELSE Finish(i, profileError, "loadFailed", << LoadProfileFailed >>)
    /\ lastEvent' = "other"
    /\ UNCHANGED notified
    /\ UNCHANGED << life, authListenerInitialized, listeners, cleanups,
                    storeUser, storeProfile, notifications >>
    /\ UNCHANGED << apiVars, progressVars, shellVars >>

\* `await dispatch(createUserProfile(...)).unwrap()` resolves.
CreateFulfilled(i) ==
    /\ runs[i].pc = "awaitCreate"
    /\ storeProfile' = ProfileOf(runs[i].user)
    /\ Finish(i, JsNull, "created", << >>)
    /\ lastEvent' = "other"
    /\ UNCHANGED notified
    /\ UNCHANGED << life, authListenerInitialized, listeners, cleanups,
                    storeUser, notifications >>
    /\ UNCHANGED << apiVars, progressVars, shellVars >>

\* The creation failure answered by another create-profile request.
CreateRejected_Retries(i) ==
    /\ runs[i].pc = "awaitCreate"
    /\ runs' = [runs EXCEPT ![i] = [@ EXCEPT !.creates = @ + 1]]
    /\ lastEvent' = "createRejected"
    /\ UNCHANGED notified
    /\ UNCHANGED << life, authListenerInitialized, listeners, cleanups,
                    authChecked, errorState, storeUser, storeProfile,
                    notifications >>
    /\ UNCHANGED << apiVars, progressVars, shellVars >>

\* It rejects, with any value.
CreateRejected(i) ==
    /\ runs[i].pc = "awaitCreate"
    /\ Finish(i, JsNull, "createFailed", << CreateProfileFailed >>)
    /\ lastEvent' = "createRejected"
    /\ UNCHANGED notified
    /\ UNCHANGED << life, authListenerInitialized, listeners, cleanups,
                    storeUser, storeProfile, notifications >>
    /\ UNCHANGED << apiVars, progressVars, shellVars >>

NextAuth ==
    \/ \E c \in Consumers : Mount(c)
    \/ \E c \in Consumers : Unmount(c)
    \/ NotifySignedIn
    \/ NotifySignedOut
    \/ ProviderError
    \/ \E i \in 1..Len(runs) : FetchFulfilled(i)
    \/ \E i \in 1..Len(runs) : FetchRejected(i)
    \/ \E i \in 1..Len(runs) : CreateFulfilled(i)
    \/ \E i \in 1..Len(runs) : CreateRejected(i)

\* The bridge starts before the provider has reported a session.
InitAuth == Init /\ ~currentUser

SpecAuth == InitAuth /\ [][NextAuth]_vars

-----------------------------------------------------------------------------

Next ==
    \/ AuthStateChanged
    \/ CallApiClient
    \/ CallUploadFile
    \/ GetAuthToken
    \/ GetIdTokenCached
    \/ GetIdTokenForced
    \/ ApiTokenFailed
    \/ ApiFetch
    \/ ApiFetchRejected
    \/ ApiFetchResolved
    \/ ApiCatch
    \/ ApiRetry
    \/ UploadTokenFailed
    \/ UploadXhrSend
    \/ UploadXhrProgress
    \/ UploadXhrLoad
    \/ UploadXhrError
    \/ UploadFetch
    \/ UploadFetchRejected
    \/ UploadFetchResolved
    \/ UploadCatch

Spec == Init /\ [][Next]_vars

-----------------------------------------------------------------------------
(* Properties of the request pipeline *)

RequestHeaders == lastRequest.config["headers"]

\* C1: one apiClient call performs at most 4 HTTP attempts, the initial one
\* plus at most 3 retries, and its retry counter stays in 0..3.
C1_AtMostFourAttempts ==
    op = "apiClient" =>
        /\ retryCount \in 0..3
        /\ attempts <= 4
        /\ attempts <= retryCount + 1
        /\ Len(outcomes) <= attempts

\* A call that used all 4 attempts.
C1_Witness ==
    op = "apiClient" /\ pc = "done" /\ attempts = 4 /\ retryCount = 3

\* C2: if every attempt returns a status in 500..599 (the body received and
\* readable), apiClient makes exactly 4 attempts and then fails with an error
\* carrying the status and data of the last response.
C2_ServerErrorsExhaustRetries ==
    ( /\ op = "apiClient"
      /\ pc = "done"
      /\ authResult.kind = "return"
      /\ outcomes # << >>
      /\ \A i \in 1..Len(outcomes) : outcomes[i] = "http5xx"
      /\ BodyReadable(lastResponse) )
    =>
        /\ attempts = 4
        /\ result.kind = "throw"
        /\ Has(result.error, "status")
        /\ result.error.status = lastResponse.status
        /\ result.error.data = ReadBody(lastResponse)

\* C3: three network-level failures followed by a success return the 4th
\* attempt's parsed body after exactly 4 attempts, and a network-level
\* failure is final only when no retry remains.
C3_NetworkFailuresRetried ==
    (op = "apiClient" /\ pc = "done") =>
        /\ ( /\ Len(outcomes) = 4
             /\ \A i \in 1..3 : outcomes[i] = "network"
             /\ result.kind = "return" )
           => (attempts = 4 /\ result.value = ReadBody(lastResponse))
        /\ ( /\ result.kind = "throw"
             /\ outcomes # << >>
             /\ Last(outcomes) = "network"
             /\ Len(outcomes) = accessorCalls )
           => attempts = 4

\* C4: a 4xx response, whatever its body or message, ends the call after
\* exactly 1 attempt, with no backoff delay, the failure going to the caller.
C4_ClientErrorNotRetried ==
    ( /\ op = "apiClient"
      /\ outcomes # << >>
      /\ outcomes[1] = "http4xx" )
    =>
        /\ attempts = 1
        /\ delays = << >>
        /\ pc \in { "catch", "done" }
        /\ pc = "done" => result.kind = "throw"

\* C5: every request apiClient sends carries Authorization: Bearer <token>,
\* whatever the options, and the caller's other headers are merged in.
C5_CredentialHeaderAlwaysSent ==
    (op = "apiClient" /\ pc = "fetching") =>
        /\ Has(RequestHeaders, "Authorization")
        /\ RequestHeaders["Authorization"] = Bearer(token)
        /\ \A k \in (DOMAIN OptionHeaders(options)) \ { "Authorization" } :
               /\ Has(RequestHeaders, k)
               /\ RequestHeaders[k] = OptionHeaders(options)[k]

\* C6: with a current principal, a cached fetch that succeeds gives the
\* token after exactly 1 provider call; a cached fetch that fails followed
\* by a forced refresh that succeeds gives the refreshed token after exactly
\* 2 provider calls, cached first and forced second.
C6_CachedThenForced ==
    /\ (idTokenCalls # << >>) =>
           /\ user
           /\ idTokenCalls[1].forceRefresh = FALSE
    /\ (idTokenCalls # << >> /\ idTokenCalls[1].ok) =>
           /\ Len(idTokenCalls) = 1
           /\ authResult = [kind |-> "return", value |-> idTokenCalls[1].value]
    /\ (Len(idTokenCalls) >= 2) =>
           /\ ~idTokenCalls[1].ok
           /\ idTokenCalls[2].forceRefresh = TRUE
    /\ (Len(idTokenCalls) >= 2 /\ idTokenCalls[2].ok) =>
           /\ Len(idTokenCalls) = 2
           /\ authResult = [kind |-> "return", value |-> idTokenCalls[2].value]
    /\ (authResult.kind = "return") =>
           /\ idTokenCalls # << >>
           /\ Last(idTokenCalls).ok

\* The cached fetch failed and the forced refresh gave the token.
C6_Witness ==
    /\ authResult.kind = "return"
    /\ Len(idTokenCalls) = 2
    /\ ~idTokenCalls[1].ok
    /\ idTokenCalls[2].ok

\* C7: without a principal getAuthToken fails as Unauthenticated after zero
\* provider calls; when the cached and the forced fetch both fail it fails as
\* SessionExpired, a different error; it never makes more than 2 calls.
C7_TokenFailureKinds ==
    /\ Len(idTokenCalls) <= 2
    /\ (pc = "tokenSettled" /\ ~user) =>
           /\ authResult.kind = "throw"
           /\ authResult.error.message = << "User", "not", "authenticated" >>
           /\ idTokenCalls = << >>
    /\ (Len(idTokenCalls) = 2 /\ ~idTokenCalls[2].ok) =>
           /\ authResult.kind = "throw"
           /\ authResult.error.message # << "User", "not", "authenticated" >>
           /\ authResult.error = SessionExpiredError
    /\ (authResult.kind = "throw") =>
           \/ ~user /\ idTokenCalls = << >>
           \/ /\ user
              /\ Len(idTokenCalls) = 2
              /\ ~idTokenCalls[1].ok
              /\ ~idTokenCalls[2].ok

\* Both provider calls failed.
C7_Witness ==
    /\ pc = "tokenSettled"
    /\ user
    /\ authResult.kind = "throw"
    /\ Len(idTokenCalls) = 2

\* C8: when getAuthToken fails, apiClient and uploadFile start no HTTP
\* exchange for that attempt, sleep no backoff delay, do not retry, and hand
\* the token failure to the caller, also on a retry.
C8_TokenFailurePropagates ==
    /\ (authResult.kind = "throw" /\ pc \in { "catch", "done" }) =>
           /\ attempts = accessorCalls - 1
           /\ Len(outcomes) = accessorCalls - 1
           /\ Len(delays) = accessorCalls - 1
           /\ inFlight = 0
           /\ error = authResult.error
           /\ pc = "done" =>
                  result = [kind |-> "throw", error |-> authResult.error]
    /\ (authResult.kind = "throw") =>
           pc \in { "tokenSettled", "catch", "done" }

\* A token failure on a retry, after an earlier attempt failed.
C8_Witness ==
    /\ op = "apiClient"
    /\ pc = "done"
    /\ authResult.kind = "throw"
    /\ retryCount >= 1
    /\ attempts = retryCount
    /\ result.kind = "throw"

\* C9: the delays before retries 1, 2, 3 are 1000, 2000, 4000 ms in that
\* order; their total never exceeds 7000 ms and none exceeds 5000 ms.
C9_BackoffSchedule ==
    /\ Len(delays) <= 3
    /\ \A n \in 1..Len(delays) : delays[n] = << 1000, 2000, 4000 >>[n]
    /\ \A n \in 1..Len(delays) : delays[n] <= 5000
    /\ Sum(delays) <= 7000
    /\ Len(delays) = IF pc = "sleep" THEN retryCount + 1 ELSE retryCount

\* All three backoff delays have been waited.
C9_Witness ==
    /\ op = "apiClient"
    /\ delays = << 1000, 2000, 4000 >>
    /\ pc = "fetching"

\* C10: every attempt calls the token accessor once before sending, and the
\* bearer token it sends is the one that call returned.
C10_TokenRederivedPerAttempt ==
    (op = "apiClient" /\ pc = "fetching") =>
        /\ accessorCalls = attempts
        /\ accessorCalls = retryCount + 1
        /\ authResult.kind = "return"
        /\ Has(RequestHeaders, "Authorization")
        /\ RequestHeaders["Authorization"] = Bearer(authResult.value)

-----------------------------------------------------------------------------
(* Properties of the upload pipeline *)

\* C11: uploadFile performs exactly one transport exchange per call on both
\* of its paths; a network error and every non-2xx status go to the caller
\* with no retry and no backoff delay.
C11_UploadNeverRetried ==
    op = "uploadFile" =>
        /\ attempts <= 1
        /\ accessorCalls <= 1
        /\ retryCount = 0
        /\ delays = << >>
        /\ (pc = "done" /\ authResult.kind = "return") =>
               /\ attempts = 1
               /\ Len(outcomes) = 1
               /\ outcomes[1] # "http2xx" => result.kind = "throw"

\* An upload that failed with a 5xx status and ended after its one exchange.
C11_Witness ==
    /\ op = "uploadFile"
    /\ pc = "done"
    /\ outcomes = << "http5xx" >>
    /\ attempts = 1
    /\ result.kind = "throw"

\* C12: on a non-2xx response uploadFile fails with the server's message
\* when the body parses and has one, and with a message that starts with
\* 'Upload failed: <status>' when the body does not parse, with or without a
\* progress callback.
C12_UploadErrorMessage ==
    ( /\ op = "uploadFile"
      /\ pc = "done"
      /\ Len(outcomes) = 1
      /\ outcomes[1] \in { "http4xx", "http5xx" } )
    =>
        /\ result.kind = "throw"
        /\ ( /\ JsonParses(lastResponse.body)
             /\ HasServerMessage(JsonParse(lastResponse.body)) )
           => result.error.message = JsonParse(lastResponse.body).props["message"]
        /\ ~JsonParses(lastResponse.body)
           => /\ Len(result.error.message) >= 3
              /\ SubSeq(result.error.message, 1, 3)
                     = << "Upload", "failed:", ToString(lastResponse.status) >>

RECURSIVE PercentsMatch(_, _)
\* `calls` holds, in order, one value loaded / total * 100 for each event of
\* `events` whose total is known, and nothing else.
PercentsMatch(calls, events) ==
    IF events = << >> THEN calls = << >>
    ELSE IF ~Head(events).lengthComputable
         THEN PercentsMatch(calls, Tail(events))
    ELSE /\ calls # << >>
         /\ Head(calls) * Head(events).total = Head(events).loaded * 100
         /\ PercentsMatch(Tail(calls), Tail(events))

Computable(loaded, total) ==
    [lengthComputable |-> TRUE, loaded |-> loaded, total |-> total]

\* C13: the progress callback is called once per progress event whose total
\* is known, in order, with loaded / total * 100, and not for the others;
\* events of 25, 50 and 100 percent deliver 25, 50, 100; every value is in
\* 0..100.
C13_ProgressPercentages ==
    /\ PercentsMatch(progressCalls, progressEvents)
    /\ \A i \in 1..Len(progressCalls) :
           progressCalls[i] >= 0 /\ progressCalls[i] <= 100
    /\ progressEvents
           = << Computable(1, 4), Computable(2, 4), Computable(4, 4) >>
       => progressCalls = << 25, 50, 100 >>
    /\ progressEvents # << >> => (op = "uploadFile" /\ onProgress)

\* Progress events of 25, 50 and 100 percent were delivered.
C13_Witness ==
    /\ progressEvents
           = << Computable(1, 4), Computable(2, 4), Computable(4, 4) >>
    /\ progressCalls = << 25, 50, 100 >>

-----------------------------------------------------------------------------
(* Properties of the auth state bridge *)

RunIds == 1..Len(runs)

\* The rejection value is a string that names a 404 or says "not found".
SaysNotFound(v) ==
    /\ v.t = "string"
    /\ \/ \E k \in 1..Len(v.s) : v.s[k] = "404"
       \/ \E k \in 1..(Len(v.s) - 1) : v.s[k] = "not" /\ v.s[k + 1] = "found"

\* C14: at most one provider listener is registered, the module flag is true
\* exactly when one is, every delivered notification starts exactly one
\* handler run, and a mount that finds the flag set registers nothing.
C14_SingleListener ==
    /\ Cardinality(listeners) <= 1
    /\ authListenerInitialized <=> listeners # {}
    /\ Len(runs) = notifications
    /\ cleanups = listeners
    /\ listeners \subseteq MountedConsumers

\* Two consumers are mounted, one listener is registered, and a notification
\* was handled once.
C14_Witness ==
    /\ Cardinality(MountedConsumers) = 2
    /\ Cardinality(listeners) = 1
    /\ notifications = 1
    /\ Len(runs) = 1

\* C15: for every component that uses useAuth, loading is true until the
\* first notification has been fully processed, false after that, and never
\* true again while the component lives.
C15_LoadingEndsAfterFirstNotification ==
    \A c \in Consumers :
        life[c] = "mounted" =>
            /\ (notifications = 0 /\ ~authChecked[c]) => Loading(c)
            /\ (c \in notified /\ \A i \in RunIds : runs[i].pc = "done")
                   => ~Loading(c)

\* C16: a signed-in notification whose profile fetch fails as not-found
\* makes exactly one create-profile request; when that succeeds, principal
\* and profile are populated and the handler has set no error.
C16_NotFoundCreatesProfileOnce ==
    \A i \in RunIds :
        LET r == runs[i]
        IN  /\ r.creates <= 1
            /\ r.fetches <= 1
            /\ r.creates = 1 <=> (r.fetchError # JsNull /\ SaysNotFound(r.fetchError))
            /\ r.creates = 1 => r.pc = "awaitCreate" \/ r.path \in { "created", "createFailed" }
            /\ r.path = "created" =>
                   /\ r.pc = "done"
                   /\ r.creates = 1
                   /\ r.errors = << >>
                   /\ Len(runs) = 1 =>
                          /\ storeUser = JsObject(UserPayload(r.user))
                          /\ storeProfile # JsNull
                          /\ storeProfile.props["uid"] = r.user.uid

\* The fetch failed as not-found and the one creation succeeded.
C16_Witness ==
    /\ Len(runs) = 1
    /\ runs[1].path = "created"
    /\ runs[1].creates = 1
    /\ SaysNotFound(runs[1].fetchError)
    /\ storeUser # JsNull
    /\ storeProfile # JsNull

\* C17: when the fetch fails as not-found and the one creation fails too,
\* the bridge sets the overlay 'Failed to create user profile', stays
\* authenticated with no profile, and makes no further fetch or create.
C17_CreateFailureSurfaced ==
    \A i \in RunIds :
        LET r == runs[i]
        IN  /\ r.creates <= 1
            /\ r.fetches <= 1
            /\ r.path = "createFailed" =>
                   /\ r.pc = "done"
                   /\ r.fetches = 1
                   /\ r.creates = 1
                   /\ Len(r.errors) = 1
                   /\ SubSeq(r.errors[1], 1, 5)
                          = << "Failed", "to", "create", "user", "profile." >>
                   /\ Len(runs) = 1 =>
                          /\ (lastEvent = "createRejected"
                                 /\ life[r.owner] = "mounted")
                                => errorState[r.owner] = r.errors[1]
                          /\ IsAuthenticated
                          /\ storeUser = JsObject(UserPayload(r.user))
                          /\ storeProfile = JsNull

\* The creation failed and the overlay is shown.
C17_Witness ==
    /\ Len(runs) = 1
    /\ runs[1].path = "createFailed"
    /\ lastEvent = "createRejected"
    /\ life[runs[1].owner] = "mounted"
    /\ errorState[runs[1].owner] = CreateProfileFailed
    /\ IsAuthenticated

\* C18: for every profile-fetch failure not classified as not-found,
\* whatever value the fetch rejects with, the bridge makes no create-profile
\* request, sets the overlay 'Failed to load user profile', and keeps the
\* principal.
C18_OtherFetchFailureSurfaced ==
    \A i \in RunIds :
        LET r == runs[i]
        IN  (r.pc = "done" /\ r.fetchError # JsNull /\ ~SaysNotFound(r.fetchError))
            =>
                /\ r.creates = 0
                /\ r.errors = << << "Failed", "to", "load", "user", "profile." >> >>
                /\ Len(runs) = 1 => IsAuthenticated

\* C19: a signed-out notification, also as the first notification, clears
\* the cached principal and profile, so isAuthenticated is false, and makes
\* no profile fetch or create request.
C19_SignedOutClears ==
    /\ \A i \in RunIds :
           runs[i].kind = "signedOut" =>
               /\ runs[i].fetches = 0
               /\ runs[i].creates = 0
               /\ runs[i].pc = "done"
    /\ lastEvent = "signedOut" =>
           /\ runs # << >>
           /\ Last(runs).kind = "signedOut"
           /\ storeUser = JsNull
           /\ storeProfile = JsNull
           /\ ~IsAuthenticated

\* A sign-out processed after a session whose profile had been loaded.
C19_Witness ==
    /\ lastEvent = "signedOut"
    /\ Len(runs) = 2
    /\ runs[1].path = "loaded"
    /\ storeUser = JsNull
    /\ storeProfile = JsNull

\* C20: on a provider-level error the bridge sets the overlay
\* 'Authentication service error', sets authChecked, and leaves the cached
\* principal and profile as they were.
C20_ProviderErrorSurfaced ==
    [][ lastEvent' = "providerError" =>
            /\ listeners' # {}
            /\ \A c \in listeners' :
                   /\ SubSeq(errorState'[c], 1, 3)
                          = << "Authentication", "service", "error." >>
                   /\ authChecked'[c]
                   /\ ~Loading(c)'
            /\ storeUser' = storeUser
            /\ storeProfile' = storeProfile
            /\ runs' = runs ]_vars

\* A provider error reported while a principal and its profile are cached.
C20_Witness ==
    /\ lastEvent = "providerError"
    /\ storeUser # JsNull
    /\ storeProfile # JsNull
    /\ \E c \in listeners :
           errorState[c] = AuthServiceError /\ authChecked[c]

-----------------------------------------------------------------------------
(* useLogout: the function it returns *)

\* The logout function is called.
CallLogout ==
    /\ logoutPc \in { "idle", "done" }
    /\ logoutPc' = "awaitSignOut"
    /\ signOutOutcome' = "none"
    /\ logoutResult' = NoResult
    /\ UNCHANGED << apiVars, progressVars, authVars, appVars, envVars >>

\* auth.signOut() resolves: dispatch(clearUser()), return true.
SignOutResolved ==
    /\ logoutPc = "awaitSignOut"
    /\ signOutOutcome' = "resolved"
    /\ storeUser' = ClearUserReducer
    /\ storeProfile' = ClearUserReducer
    /\ logoutResult' = [kind |-> "return", value |-> TRUE]
    /\ logoutPc' = "done"
    /\ UNCHANGED << life, authListenerInitialized, listeners, cleanups,
                    authChecked, errorState, runs, notifications, notified,
                    lastEvent >>
    /\ UNCHANGED << apiVars, progressVars, appVars, envVars >>

\* The catch block rethrowing what signOut rejected with.
SignOutRejected_Rethrows ==
    /\ logoutPc = "awaitSignOut"
    /\ signOutOutcome' = "rejected"
    /\ logoutResult' = [kind |-> "throw",
                        error |-> [name |-> "FirebaseError",
                                   message |-> NetworkRequestFailed]]
    /\ logoutPc' = "done"
    /\ UNCHANGED << apiVars, progressVars, authVars, appVars, envVars >>

\* auth.signOut() rejects: the catch block returns false.
SignOutRejected ==
    /\ logoutPc = "awaitSignOut"
    /\ signOutOutcome' = "rejected"
    /\ logoutResult' = [kind |-> "return", value |-> FALSE]
    /\ logoutPc' = "done"
    /\ UNCHANGED << apiVars, progressVars, authVars, appVars, envVars >>

\* Logout next to the auth bridge that caches the principal it clears.
NextLogout ==
    \/ \E c \in Consumers : Mount(c)
    \/ NotifySignedIn
    \/ NotifySignedOut
    \/ \E i \in 1..Len(runs) : FetchFulfilled(i)
    \/ CallLogout
    \/ SignOutResolved
    \/ SignOutRejected

SpecLogout == InitAuth /\ [][NextLogout]_vars

\* C21: the logout action never throws; when signOut succeeds it clears the
\* cached principal and returns true, when signOut fails it returns false and
\* leaves the cached principal and profile as they were.
C21_LogoutReturnsFlag ==
    [][ (logoutPc = "awaitSignOut" /\ logoutPc' = "done") =>
            /\ logoutResult'.kind = "return"
            /\ signOutOutcome' \in { "resolved", "rejected" }
            /\ signOutOutcome' = "resolved" =>
                   /\ logoutResult'.value = TRUE
                   /\ storeUser' = JsNull
                   /\ ~IsAuthenticated'
            /\ signOutOutcome' = "rejected" =>
                   /\ logoutResult'.value = FALSE
                   /\ storeUser' = storeUser
                   /\ storeProfile' = storeProfile ]_vars

\* A failed logout that returned false with the principal still cached.
C21_Witness ==
    /\ logoutPc = "done"
    /\ signOutOutcome = "rejected"
    /\ logoutResult = [kind |-> "return", value |-> FALSE]
    /\ storeUser # JsNull
    /\ storeProfile # JsNull

-----------------------------------------------------------------------------
(* The error apiClient makes of a response that is not ok *)

\* The message the preference order gives: the message field of a body read
\* as a JSON object, else the raw body, else the generic text.
PreferredMessage(response) ==
    LET b == response.body
    IN  IF /\ IsJsonContentType(response)
           /\ b.wire = "json"
           /\ b.value.t = "object"
           /\ Has(b.value.props, "message")
           /\ b.value.props["message"] # << >>
        THEN b.value.props["message"]
        ELSE IF ResponseText(b) # << >>
        THEN ResponseText(b)
        ELSE GenericMessage(response)

\* C22: for every body, a response that is not ok makes apiClient fail with
\* an error carrying the numeric status, the payload as data, and a message
\* that is the body's message field, else the raw body, else the generic
\* 'HTTP <status>: <reason>' text.
C22_HttpErrorShape ==
    (op = "apiClient" /\ pc = "catch" /\ lastResponse # NoResponse
         /\ ~Ok(lastResponse))
    =>
        /\ Has(error, "status")
        /\ error.status = lastResponse.status
        /\ Has(error, "data")
        /\ error.message = PreferredMessage(lastResponse)

-----------------------------------------------------------------------------
(* App: the route table and ProtectedRoute *)

Page(name) == [el |-> "page", arg |-> name]
Navigate(to) == [el |-> "Navigate", arg |-> to]

PublicPaths ==
    { "/", "/login", "/about", "/features", "/pricing", "/contact",
      "/privacy", "/terms" }

ProtectedPaths ==
    { "/dashboard", "/profile", "/resume-analyzer", "/interview-practice",
      "/job-search", "/question-bank" }

\* The paths a visitor asks for: the routes, and one that matches none.
Paths == PublicPaths \cup ProtectedPaths \cup { "/no-such-page" }

\* ProtectedRoute that renders its children whatever isAuthenticated is.
ProtectedRoute_AlwaysChildren(children, isAuthenticated) == children

\* function ProtectedRoute({ children, isAuthenticated })
ProtectedRoute(children, isAuthenticated) ==
    IF ~isAuthenticated THEN Navigate("/login") ELSE children

\* The element of the <Route> that matches the path.
RouteElement(path, isAuthenticated) ==
    CASE path = "/" ->
             IF isAuthenticated THEN Navigate("/dashboard")
             ELSE Page("LandingPage")
      [] path = "/login" ->
             IF isAuthenticated THEN Navigate("/dashboard")
             ELSE Page("Login")
      [] path = "/about" -> Page("AboutUs")
      [] path = "/features" -> Page("Features")
      [] path = "/pricing" -> Page("Pricing")
      [] path = "/contact" -> Page("Contact")
      [] path = "/privacy" -> Page("PrivacyPolicy")
      [] path = "/terms" -> Page("TermsOfService")
      [] path = "/dashboard" ->
             ProtectedRoute(Page("Dashboard"), isAuthenticated)
      [] path = "/profile" ->
             ProtectedRoute(Page("UserProfile"), isAuthenticated)
      [] path = "/resume-analyzer" ->
             ProtectedRoute(Page("ResumeAnalyzer"), isAuthenticated)
      [] path = "/interview-practice" ->
             ProtectedRoute(Page("InterviewPractice"), isAuthenticated)
      [] path = "/job-search" ->
             ProtectedRoute(Page("JobSearch"), isAuthenticated)
      [] path = "/question-bank" ->
             ProtectedRoute(Page("QuestionBank"), isAuthenticated)
      [] OTHER ->
             Navigate(IF isAuthenticated THEN "/dashboard" ELSE "/")

\* function App(): the loading screen, or the routes.
App(loading, isAuthenticated, path) ==
    IF loading THEN PageLoading ELSE RouteElement(path, isAuthenticated)

\* useAuth returns new values and App renders again.
UseAuthReturns ==
    /\ \E l \in BOOLEAN, a \in BOOLEAN :
           /\ << l, a >> # << viewLoading, viewAuthenticated >>
           /\ viewLoading' = l
           /\ viewAuthenticated' = a
           /\ rendered' = App(l, a, Last(history))
    /\ UNCHANGED history
    /\ UNCHANGED << apiVars, progressVars, authVars, logoutVars, envVars >>

\* The visitor opens a path: a new history entry, and App renders it.
GoTo ==
    /\ Len(history) < MaxHistory
    /\ \E path \in Paths :
           /\ history' = Append(history, path)
           /\ rendered' = App(viewLoading, viewAuthenticated, path)
    /\ UNCHANGED << viewLoading, viewAuthenticated >>
    /\ UNCHANGED << apiVars, progressVars, authVars, logoutVars, envVars >>

\* The visitor goes back one history entry.
GoBack ==
    /\ Len(history) > 1
    /\ history' = SubSeq(history, 1, Len(history) - 1)
    /\ rendered' = App(viewLoading, viewAuthenticated,
                       history[Len(history) - 1])
    /\ UNCHANGED << viewLoading, viewAuthenticated >>
    /\ UNCHANGED << apiVars, progressVars, authVars, logoutVars, envVars >>

\* A rendered <Navigate replace /> replaces the current history entry.
FollowNavigate ==
    /\ rendered.el = "Navigate"
    /\ history' = [history EXCEPT ![Len(history)] = rendered.arg]
    /\ rendered' = App(viewLoading, viewAuthenticated, rendered.arg)
    /\ UNCHANGED << viewLoading, viewAuthenticated >>
    /\ UNCHANGED << apiVars, progressVars, authVars, logoutVars, envVars >>

NextApp ==
    \/ UseAuthReturns
    \/ GoTo
    \/ GoBack
    \/ FollowNavigate

SpecApp == InitAuth /\ [][NextApp]_vars

\* The pages behind ProtectedRoute.
ProtectedPages ==
    { "Dashboard", "UserProfile", "ResumeAnalyzer", "InterviewPractice",
      "JobSearch", "QuestionBank" }

\* C23: a protected page is rendered only when isAuthenticated is true; for
\* an unauthenticated visitor a protected path renders a redirect to /login
\* instead; and while loading is true App renders no route at all.
C23_ProtectedPagesGuarded ==
    /\ viewLoading => rendered = PageLoading
    /\ (rendered.el = "page" /\ rendered.arg \in ProtectedPages)
           => viewAuthenticated /\ ~viewLoading
    /\ (~viewLoading /\ ~viewAuthenticated /\ Last(history) \in ProtectedPaths)
           => rendered = [el |-> "Navigate", arg |-> "/login"]
    /\ (~viewLoading /\ viewAuthenticated /\ Last(history) \in ProtectedPaths)
           => rendered.el = "page" /\ rendered.arg \in ProtectedPages

\* An unauthenticated visitor on /dashboard is shown the redirect to /login.
C23_Witness ==
    /\ ~viewLoading
    /\ ~viewAuthenticated
    /\ Last(history) = "/dashboard"
    /\ rendered = [el |-> "Navigate", arg |-> "/login"]

-----------------------------------------------------------------------------
(* validateEnv.js: getApiUrl *)

\* The characters of a configured URL: '/' and one that is not '/'.
UrlChars == { "a", "/" }

Urls == UNION { [1..n -> UrlChars] : n \in 0..MaxUrlLen }

\* import.meta.env.VITE_API_BASE_URL when the variable is not set.
Undefined == << "undefined" >>

\* String.prototype.endsWith, for a one-character search string.
EndsWith(str, ch) == Len(str) > 0 /\ str[Len(str)] = ch

\* String.prototype.slice(begin, end): a negative end counts from the end.
Slice(str, begin, end) ==
    LET stop == IF end < 0 THEN Len(str) + end ELSE Min(end, Len(str))
    IN  SubSeq(str, begin + 1, stop)

\* getApiUrl removing every trailing slash.
RECURSIVE getApiUrl_StripAll(_)
getApiUrl_StripAll(url) ==
    IF EndsWith(url, "/") THEN getApiUrl_StripAll(Slice(url, 0, -1)) ELSE url

\* `url.endsWith('/') ? url.slice(0, -1) : url`
getApiUrl(url) ==
    IF EndsWith(url, "/") THEN Slice(url, 0, -1) ELSE url

\* The build reads the environment: the variable is set to a string, or not.
LoadEnv ==
    /\ envUrl = NotLoaded
    /\ envUrl' \in Urls \cup { Undefined }
    /\ UNCHANGED apiUrl
    /\ UNCHANGED << apiVars, progressVars, authVars, logoutVars, appVars >>

\* getApiUrl() is called; calling a method of undefined throws.
CallGetApiUrl ==
    /\ envUrl # NotLoaded
    /\ apiUrl' = IF envUrl = Undefined
                 THEN [kind |-> "throw",
                       error |-> [name |-> "TypeError",
                                  message |-> << "Cannot", "read",
                                                 "properties", "of",
                                                 "undefined" >>]]
                 ELSE [kind |-> "return", value |-> getApiUrl(envUrl)]
    /\ UNCHANGED envUrl
    /\ UNCHANGED << apiVars, progressVars, authVars, logoutVars, appVars >>

NextEnv ==
    \/ LoadEnv
    \/ CallGetApiUrl

SpecEnv == InitAuth /\ [][NextEnv]_vars

\* C24: getApiUrl returns the configured base URL with exactly one trailing
\* '/' removed when the configured value ends in '/', and the configured
\* value unchanged otherwise.
C24_OneTrailingSlashStripped ==
    (apiUrl # NoResult /\ envUrl # Undefined) =>
        /\ apiUrl.kind = "return"
        /\ IF envUrl # << >> /\ envUrl[Len(envUrl)] = "/"
           THEN apiUrl.value \o << "/" >> = envUrl
           ELSE apiUrl.value = envUrl

\* A base URL ending in two slashes came back with one of them.
C24_Witness ==
    /\ envUrl = << "a", "/", "/" >>
    /\ apiUrl = [kind |-> "return", value |-> << "a", "/" >>]

-----------------------------------------------------------------------------
(* Order of the attempts of one apiClient call *)

\* C25: within one apiClient call the attempts are strictly sequential: an
\* attempt starts only after the failure of the one before it was observed
\* and the backoff sleep for that retry is over, so two exchanges of the
\* same request are never in flight together.
C25_AttemptsSequential ==
    op = "apiClient" =>
        /\ inFlight \in { 0, 1 }
        /\ inFlight = 1 <=> pc = "fetching"
        /\ attempts = Len(outcomes) + inFlight
        /\ Len(delays) = retryCount + (IF pc = "sleep" THEN 1 ELSE 0)
        /\ pc = "fetching" =>
               /\ attempts = retryCount + 1
               /\ Len(outcomes) = retryCount
               /\ Len(delays) = attempts - 1
        /\ pc = "sleep" => inFlight = 0 /\ Len(outcomes) = attempts

\* The third exchange in flight, after two failures and two sleeps.
C25_Witness ==
    /\ op = "apiClient"
    /\ pc = "fetching"
    /\ attempts = 3
    /\ inFlight = 1
    /\ Len(outcomes) = 2
    /\ Len(delays) = 2

-----------------------------------------------------------------------------
(* Teardown and re-subscription of the auth listener *)

\* C26: when the consumer that registered the listener unmounts, the
\* listener is unsubscribed and authListenerInitialized is reset, so the
\* next mount registers a new listener; an unmount of a consumer that did
\* not register the listener changes neither the flag nor the registration.
C26_TeardownResets ==
    [][ \A c \in Consumers :
            /\ (life[c] = "mounted" /\ life'[c] = "unmounted") =>
                   IF c \in listeners
                   THEN listeners' = {} /\ ~authListenerInitialized'
                   ELSE /\ listeners' = listeners
                        /\ authListenerInitialized' = authListenerInitialized
            /\ (life[c] = "new" /\ life'[c] = "mounted"
                    /\ ~authListenerInitialized) =>
                   listeners' = { c } /\ authListenerInitialized' ]_vars

\* The owner of an earlier handler run has unmounted and another consumer
\* holds a listener now.
C26_Witness ==
    /\ authListenerInitialized
    /\ \E i \in RunIds, d \in Consumers :
           /\ life[runs[i].owner] = "unmounted"
           /\ d # runs[i].owner
           /\ listeners = { d }

\* C27: whenever at least one useAuth consumer is mounted a listener is
\* registered, so a consumer that stays mounted after the registrant
\* unmounts still receives notifications.
C27_MountedImpliesListener ==
    MountedConsumers # {} => listeners # {}

-----------------------------------------------------------------------------
(* A sign-out that overtakes a sign-in still being handled *)

\* Run i handles a sign-in, still awaits a profile request, and a sign-out
\* was delivered after it.
Superseded(i) ==
    /\ runs[i].kind = "signedIn"
    /\ runs[i].pc # "done"
    /\ \E j \in RunIds : j > i /\ runs[j].kind = "signedOut"

\* C28: a sign-in handler overtaken by a sign-out changes nothing after the
\* sign-out: it sets no error overlay, issues no create-profile request and
\* leaves the principal cleared.
C28_SupersededSignInInert ==
    [][ \A i \in RunIds :
            (Superseded(i) /\ runs'[i] # runs[i]) =>
                /\ runs'[i].errors = runs[i].errors
                /\ runs'[i].creates = runs[i].creates
                /\ errorState' = errorState
                /\ storeUser' = storeUser ]_vars

-----------------------------------------------------------------------------
(* Every handler run reaches its finally block *)

\* The profile request that run i awaits settles.
Settle(i) ==
    /\ i \in 1..Len(runs)
    /\ \/ FetchFulfilled(i)
       \/ FetchRejected(i)
       \/ CreateFulfilled(i)
       \/ CreateRejected(i)

\* The handler and what starts it: mounts, notifications, settled requests.
NextHandler ==
    \/ \E c \in Consumers : Mount(c)
    \/ NotifySignedIn
    \/ NotifySignedOut
    \/ \E i \in 1..Len(runs) : Settle(i)

\* The handler when every awaited profile request eventually settles.
SpecAuthLive ==
    /\ InitAuth
    /\ [][NextHandler]_vars
    /\ \A i \in 1..MaxRuns : WF_vars(Settle(i))

\* Run i ends in this step: it reaches the end of its finally block.
RunEnds(i) ==
    /\ i <= Len(runs')
    /\ runs'[i].pc = "done"
    /\ i > Len(runs) \/ runs[i].pc # "done"

\* C29: every run of the auth-change handler ends, on every path, and ends
\* with authChecked of the component that owns it set to true, provided
\* each profile request it awaits eventually settles.
C29_EveryRunSetsAuthChecked ==
    /\ \A i \in 1..MaxRuns :
           [](Len(runs) >= i => <>(Len(runs) >= i /\ runs[i].pc = "done"))
    /\ [][ \A i \in 1..MaxRuns :
               (RunEnds(i) /\ life[runs'[i].owner] = "mounted")
                   => authChecked'[runs'[i].owner] ]_vars

\* Two runs of one mounted owner have ended, one through the outer catch
\* and one through a failed creation, and authChecked is true.
C29_Witness ==
    /\ Len(runs) = 2
    /\ { runs[1].path, runs[2].path } = { "handlerThrew", "createFailed" }
    /\ runs[1].owner = runs[2].owner
    /\ life[runs[1].owner] = "mounted"
    /\ authChecked[runs[1].owner]

-----------------------------------------------------------------------------
(* The two paths of uploadFile compared *)

\* The fetch path, lines 163-172: what the promise settles with for a
\* response.
FetchUploadResult(response) ==
    IF ~Ok(response)
    THEN [kind |-> "throw", error |-> UploadHttpError(response)]
    ELSE IF ~JsonParses(response.body)
    THEN [kind |-> "throw", error |-> SyntaxError]
    ELSE [kind |-> "return", value |-> JsonParse(response.body)]

\* Two settled promises give the caller the same outcome.
SameOutcome(a, b) ==
    /\ a.kind = b.kind
    /\ a.kind = "return" => a.value = b.value
    /\ a.kind = "throw" => a.error.message = b.error.message

\* C30: for the same server response the XHR path and the fetch path of
\* uploadFile give the caller the same outcome: the same parsed value on
\* every 2xx response, JSON or not, and the same message on every other.
C30_UploadPathsAgree ==
    (op = "uploadFile" /\ pc = "done" /\ lastResponse # NoResponse) =>
        SameOutcome(result,
                    IF onProgress THEN FetchUploadResult(lastResponse)
                    ELSE XhrLoadResult(lastResponse))

=============================================================================
